---- MODULE Spec2Model ----
(***************************************************************************)
(* The Backend of react-devtools (src/backend/Backend.js): the identity    *)
(* registry (ids, comps), the node store (nodes), the root set (roots),    *)
(* the lifecycle notifications of the host, the mutation commands of the   *)
(* bridge, and the path accessors setIn / getIn.                           *)
(***************************************************************************)
EXTENDS Integers, Sequences, FiniteSets, TLC

(***************************************************************************)
(* Bounds of the model.                                                    *)
(***************************************************************************)
\* how many different strings randid() can return
NumIds == 2
\* how many lifecycle notifications the host makes inside one forceUpdate()
MaxNested == 1
\* the longest path handed to setIn / getIn in PathSpec
MaxPathLen == 3

(***************************************************************************)
(* JavaScript values.  Every value is a record tagged with its kind, so    *)
(* that undefined, null, primitives, plain objects, arrays, functions and  *)
(* component handles stay distinct.                                        *)
(***************************************************************************)
Undef == [t |-> "undefined"]
Null == [t |-> "null"]
Fn == [t |-> "function"]
Num(n) == [t |-> "number", n |-> n]
Str(s) == [t |-> "string", s |-> s]
Bool(b) == [t |-> "boolean", b |-> b]
Obj(f) == [t |-> "object", f |-> f]
Arr(a) == [t |-> "array", a |-> a]
\* a component handle: an opaque object owned by the host
Ref(h) == [t |-> "component", h |-> h]

EmptyObj == Obj([k \in {} |-> Undef])

\* typeof v
TypeOf(v) ==
  IF v.t \in {"object", "array", "null", "component"} THEN "object" ELSE v.t

\* ToBoolean(v): what `v ? a : b`, `v && w` and `!!v` test
Truthy(v) ==
  CASE v.t \in {"undefined", "null"} -> FALSE
    [] v.t = "number" -> v.n # 0
    [] v.t = "string" -> v.s # ""
    [] v.t = "boolean" -> v.b
    [] OTHER -> TRUE

\* v[k] for a v that is neither undefined nor null (those throw a TypeError)
Prop(v, k) ==
  CASE v.t = "object" -> IF k \in DOMAIN v.f THEN v.f[k] ELSE Undef
    [] v.t = "array" /\ k = "map" -> Fn
    [] OTHER -> Undef

\* a && b
JsAnd(a, b) == IF Truthy(a) THEN b ELSE a

\* o[k] = v on a plain object o
SetProp(o, k, v) ==
  Obj([x \in DOMAIN o.f \cup {k} |-> IF x = k THEN v ELSE o.f[x]])

\* delete o[k]
DelProp(o, k) == Obj([x \in DOMAIN o.f \ {k} |-> o.f[x]])

(***************************************************************************)
(* Map and Set operations of the registries.                               *)
(***************************************************************************)
MapHas(m, k) == k \in DOMAIN m

MapSet(m, k, v) == [x \in DOMAIN m \cup {k} |-> IF x = k THEN v ELSE m[x]]

MapDeleteNoop(m, k) == m

MapDelete(m, k) == [x \in DOMAIN m \ {k} |-> m[x]]

\* Map.prototype.get: undefined for a missing key
MapGet(m, k) == IF k \in DOMAIN m THEN m[k] ELSE Undef

EmptyMap == [k \in {} |-> Undef]

\* a delete that removes nothing
SetDeleteNoop(s, x) == s

\* Set.prototype.delete
SetDelete(s, x) == s \ {x}

(***************************************************************************)
(* The path accessors.                                                     *)
(***************************************************************************)
\* the reducer of setIn and getIn: (obj, attr) => obj ? obj[attr] : null
RECURSIVE Reduce(_, _)
Reduce(acc, path) ==
  IF path = <<>> THEN acc
  ELSE Reduce(IF Truthy(acc) THEN Prop(acc, Head(path)) ELSE Null, Tail(path))

\* the root object after `child[name] = value`, child being the object that
\* the keys of prefix lead to
RECURSIVE AssignAt(_, _, _, _)
AssignAt(obj, prefix, name, value) ==
  IF prefix = <<>> THEN SetProp(obj, name, value)
  ELSE SetProp(obj, Head(prefix),
               AssignAt(obj.f[Head(prefix)], Tail(prefix), name, value))

\* path.slice() followed by pop() on the copy: the caller's array is untouched
PathPrefix(path) == IF path = <<>> THEN <<>> ELSE SubSeq(path, 1, Len(path) - 1)

\* path.pop(): undefined for an empty array, used as the key "undefined"
PathName(path) == IF path = <<>> THEN "undefined" ELSE path[Len(path)]

\* setIn without the copy of path: pop() shortens the caller's array
SetInNoSlice(obj, path, value) ==
  LET child == Reduce(obj, PathPrefix(path)) IN
  IF child = Null
    THEN [ret |-> Bool(FALSE), threw |-> FALSE, obj |-> obj, path |-> PathPrefix(path)]
  ELSE IF child.t # "object"
    THEN [ret |-> Undef, threw |-> TRUE, obj |-> obj, path |-> PathPrefix(path)]
  ELSE [ret |-> Bool(TRUE), threw |-> FALSE,
        obj |-> AssignAt(obj, PathPrefix(path), PathName(path), value),
        path |-> PathPrefix(path)]

\* setIn(obj, path, value): what it returns, whether it threw a TypeError,
\* the object graph afterwards and the caller's path afterwards.
\* `child[name] = value` throws when child is undefined, and (strict mode)
\* when child is a primitive.
SetIn(obj, path, value) ==
  LET child == Reduce(obj, PathPrefix(path)) IN
  IF child = Null
    THEN [ret |-> Bool(FALSE), threw |-> FALSE, obj |-> obj, path |-> path]
  ELSE IF child.t # "object"
    THEN [ret |-> Undef, threw |-> TRUE, obj |-> obj, path |-> path]
  ELSE [ret |-> Bool(TRUE), threw |-> FALSE,
        obj |-> AssignAt(obj, PathPrefix(path), PathName(path), value),
        path |-> path]

\* getIn(obj, path)
GetIn(obj, path) == Reduce(obj, path)

(***************************************************************************)
(* The Backend.                                                            *)
(*   ids, comps, nodes, roots : the fields of the same names               *)
(*   bridge : whether addBridge has attached a bridge                      *)
(*   trace  : what the current turn has done so far that the outside can   *)
(*            see, in order: events emitted, bridge.send and bridge.forget *)
(*            calls, forceUpdate() calls                                   *)
(*   stack  : the handlers that are suspended in a call to the outside:    *)
(*            onUnmounted inside emit('unmount'), a mutation command       *)
(*            inside data.updater.forceUpdate()                            *)
(*   call   : the handler invocation that ran last                         *)
(*   fault  : whether the current turn ended in a TypeError                *)
(*   released : the identifiers onUnmounted has released so far, in the    *)
(*            behaviours that record them                                  *)
(*   drawn  : how many different strings randid() has returned so far      *)
(*   pa     : the state of the path accessor calls of PathSpec             *)
(*   reactInternals : whether setReactInternals has injected the adapter   *)
(*   prevSelected   : the field _prevSelected                              *)
(*   window : $node of window.__REACT_DEVTOOLS_BACKEND__; $0 is the host's, *)
(*            and an input of the checkSelection tick                      *)
(*   hist   : what has happened so far (see HistInit)                      *)
(***************************************************************************)
VARIABLES ids, comps, nodes, roots, bridge, trace, stack, call, fault, released,
          drawn, pa, reactInternals, prevSelected, window, hist

vars == <<ids, comps, nodes, roots, bridge, trace, stack, call, fault, released,
          drawn, pa, reactInternals, prevSelected, window, hist>>

\* the state that the selection and highlight operations work on
view == <<reactInternals, prevSelected, window>>

\* the component handles of the host
Handles == {Ref("h1"), Ref("h2")}
\* the components the host mounts as the top of a tree
RootHandles == {Ref("h1")}

\* randid(): Math.random().toString(0x0f).slice(10, 20).  Nothing in the code
\* compares the result with the identifiers in use, so a call returns a string
\* it has returned before or a new one.  The strings are named in the order
\* in which they are first returned: "id1", "id2", ...
IdName(n) == Str("id" \o ToString(n))

Ids == {IdName(n) : n \in 1..NumIds}

\* what randid() can return after it has returned n different strings
randid(n) == {IdName(k) : k \in 1..(IF n < NumIds THEN n + 1 ELSE NumIds)}

\* the number of different strings returned once randid() has returned the
\* strings of rs too
RECURSIVE DrawnAfter(_, _)
DrawnAfter(rs, n) ==
  IF rs = <<>> THEN n
  ELSE DrawnAfter(Tail(rs), IF Head(rs) = IdName(n + 1) THEN n + 1 ELSE n)

\* rs are results of successive randid() calls
RECURSIVE InOrder(_, _)
InOrder(rs, n) ==
  IF rs = <<>> THEN TRUE
  ELSE /\ Head(rs) \in randid(n)
       /\ InOrder(Tail(rs), DrawnAfter(<<Head(rs)>>, n))

\* getId that draws a new identifier on every call
GetIdAlwaysNew(reg, element, r) ==
  IF TypeOf(element) # "object"
    THEN [id |-> element, reg |-> reg, drew |-> FALSE]
    ELSE [id |-> r,
          reg |-> [ids |-> MapSet(reg.ids, element, r),
                   comps |-> MapSet(reg.comps, r, element)],
          drew |-> TRUE]

\* getId(element) on the registry reg = [ids, comps], r being what randid()
\* returns if it is called: the identifier, the registry afterwards, and
\* whether randid() was called
GetId(reg, element, r) ==
  IF TypeOf(element) # "object"
    THEN [id |-> element, reg |-> reg, drew |-> FALSE]
  ELSE IF ~MapHas(reg.ids, element)
    THEN LET ids1 == MapSet(reg.ids, element, r) IN
         [id |-> MapGet(ids1, element),
          reg |-> [ids |-> ids1,
                   comps |-> MapSet(reg.comps, MapGet(ids1, element), element)],
          drew |-> TRUE]
  ELSE [id |-> MapGet(reg.ids, element), reg |-> reg, drew |-> FALSE]

\* children.map that lists an identifier for each child without registering
\* any
RECURSIVE MapChildrenUnregistered(_, _, _)
MapChildrenUnregistered(reg, cs, rs) ==
  IF cs = <<>> THEN [a |-> <<>>, reg |-> reg, rs |-> rs]
  ELSE LET g == GetId(reg, Head(cs), Head(rs))
           rest == MapChildrenUnregistered(reg, Tail(cs),
                                           IF g.drew THEN Tail(rs) ELSE rs)
       IN [a |-> <<g.id>> \o rest.a, reg |-> reg, rs |-> rest.rs]

\* children.map(c => this.getId(c)), rs being the results of the randid()
\* calls in order
RECURSIVE MapChildren(_, _, _)
MapChildren(reg, cs, rs) ==
  IF cs = <<>> THEN [a |-> <<>>, reg |-> reg, rs |-> rs]
  ELSE LET g == GetId(reg, Head(cs), Head(rs))
           rest == MapChildren(g.reg, Tail(cs), IF g.drew THEN Tail(rs) ELSE rs)
       IN [a |-> <<g.id>> \o rest.a, reg |-> rest.reg, rs |-> rest.rs]

\* send.updater && !!send.updater.forceUpdate
CanUpdate(send) ==
  JsAnd(Prop(send, "updater"),
        Bool(Truthy(Prop(Prop(send, "updater"), "forceUpdate"))))

\* the body shared by onMounted and onUpdated after nodes.set(id, data): the
\* message that is emitted and the registry after the getId calls on the
\* children
Message(reg, id, data, rs) ==
  LET send0 == Obj(data.f)
      kids == Prop(send0, "children")
      mapped == IF Truthy(kids) /\ Truthy(Prop(kids, "map"))
                  THEN MapChildren(reg, kids.a, rs)
                  ELSE [a |-> <<>>, reg |-> reg, rs |-> rs]
      send1 == IF Truthy(kids) /\ Truthy(Prop(kids, "map"))
                 THEN SetProp(send0, "children", Arr(mapped.a)) ELSE send0
      send2 == SetProp(send1, "id", id)
      send3 == SetProp(send2, "canUpdate", CanUpdate(send2))
  IN [send |-> DelProp(DelProp(send3, "type"), "updater"), reg |-> mapped.reg,
      rs |-> mapped.rs]

\* the listeners of a bridge that is never told to forget
EmitSendOnly(ev, arg) ==
  <<[k |-> "emit", ev |-> ev, arg |-> arg]>>
  \o (IF ~bridge THEN <<>>
      ELSE IF ev \in {"root", "mount", "update", "unmount"}
             THEN <<[k |-> "send", ev |-> ev, arg |-> arg]>>
           ELSE IF ev = "setSelection"
             THEN <<[k |-> "send", ev |-> "select", arg |-> arg]>>
           ELSE <<>>)

\* this.emit(ev, arg): the entry of the event and, with a bridge attached,
\* what the listeners of addBridge do with it
Emit(ev, arg) ==
  <<[k |-> "emit", ev |-> ev, arg |-> arg]>>
  \o (IF ~bridge THEN <<>>
      ELSE CASE ev \in {"root", "mount", "update"} ->
                  <<[k |-> "send", ev |-> ev, arg |-> arg]>>
             [] ev = "unmount" ->
                  <<[k |-> "send", ev |-> ev, arg |-> arg],
                    [k |-> "forget", ev |-> ev, arg |-> arg]>>
             [] ev = "setSelection" ->
                  <<[k |-> "send", ev |-> "select", arg |-> arg]>>
             [] OTHER -> <<>>)

(***************************************************************************)
(* What the host and the frontend hand to the Backend.                     *)
(***************************************************************************)
PropsFlat == Obj([x |-> Num(1)])
PropsDeep == Obj([x |-> Obj([y |-> Num(1)])])
UpdaterFull == Obj([forceUpdate |-> Fn, setState |-> Fn])
UpdaterBare == Obj([setState |-> Fn])

\* the snapshots (DataType) the host passes to onMounted and onUpdated for a
\* component: with and without an updater, with an updater that is null or
\* has no forceUpdate, with children that are an array of components and
\* text, a string, or absent
Snapshots(component) ==
  IF component = Ref("h1")
    THEN { Obj([name |-> Str("Foo"), type |-> Str("T"), props |-> PropsDeep,
                updater |-> UpdaterFull]),
           Obj([name |-> Str("Qux"), type |-> Str("T"), state |-> PropsFlat,
                children |-> Arr(<<Ref("h2"), Str("txt")>>)]) }
    ELSE { Obj([name |-> Str("Bar"), type |-> Str("T"), props |-> PropsFlat,
                updater |-> Null, children |-> Str("txt")]),
           Obj([name |-> Str("Baz"), type |-> Str("T"), context |-> PropsFlat,
                updater |-> UpdaterBare]) }

\* the component a snapshot describes: the one whose updater it carries
Owner(data) ==
  CHOOSE h \in Handles :
    \E d \in Snapshots(h) : Prop(d, "name") = Prop(data, "name")

\* the paths and values of the mutation commands
CmdPaths == {<<"x">>, <<"x", "y">>}
ShortPaths == {<<"x">>}
CmdValues == {Num(5)}

\* rs are the draws of a handler and rest those it did not use: the used
\* ones are results of randid(), the others are not part of its input
DrawsOk(rs, rest) ==
  /\ InOrder(SubSeq(rs, 1, Len(rs) - Len(rest)), drawn)
  /\ \A i \in 1..Len(rest) : rest[i] = IdName(1)

DrawnNext(rs, rest) == DrawnAfter(SubSeq(rs, 1, Len(rs) - Len(rest)), drawn)

\* what the randid() call of getId(element) can return, if getId makes it
FirstDraw(element) ==
  IF TypeOf(element) = "object" /\ ~MapHas(ids, element)
    THEN randid(drawn) ELSE {IdName(1)}

\* the draws of a handler in the order of its randid() calls: r is for
\* getId(component), if that draws, and q for a child
DrawSeq(component, r, q) ==
  IF TypeOf(component) = "object" /\ ~MapHas(ids, component)
    THEN <<r, q>> ELSE <<q, IdName(1)>>

\* what the randid() call for a child of data can return, if one is made,
\* after getId(component) has drawn r
SecondDraw(component, data, r) ==
  LET g == GetId([ids |-> ids, comps |-> comps], component, r)
      kids == Prop(data, "children")
  IN IF /\ kids.t = "array"
        /\ \E i \in 1..Len(kids.a) :
             TypeOf(kids.a[i]) = "object" /\ ~MapHas(g.reg.ids, kids.a[i])
       THEN randid(DrawnAfter(IF g.drew THEN <<r>> ELSE <<>>, drawn))
       ELSE {IdName(1)}

(***************************************************************************)
(* The handlers.                                                           *)
(***************************************************************************)
Reg == [ids |-> ids, comps |-> comps]

Top == stack[Len(stack)]

Pop == SubSeq(stack, 1, Len(stack) - 1)

Invocation(op, component, id, data, field, path, value) ==
  [op |-> op, component |-> component, id |-> id, data |-> data,
   field |-> field, path |-> path, value |-> value]

\* a suspended handler: cmd is its invocation, data the snapshot it holds,
\* nested the number of notifications the host has made inside it
Frame(op, component, id, data, cmd) ==
  [op |-> op, component |-> component, id |-> id, data |-> data,
   cmd |-> cmd, nested |-> 0]

NoCall == Invocation("", Undef, Undef, Undef, "", <<>>, Undef)

\* between two turns of the event loop: no handler is running or suspended
Idle == stack = <<>> /\ call = NoCall

\* The host notifies synchronously: in a turn of its own, or from inside the
\* forceUpdate() that a mutation command has called, where it re-renders the
\* component whose updater that is.
HostMayCall(component) ==
  \/ Idle
  \/ /\ stack # <<>>
     /\ Top.op = "forceUpdate"
     /\ Top.nested < MaxNested
     /\ component = Top.component

\* a handler called in a turn of its own starts a new trace
TraceBase == IF stack = <<>> THEN <<>> ELSE trace

FaultBase == IF stack = <<>> THEN FALSE ELSE fault

StackBase ==
  IF stack = <<>> THEN <<>> ELSE <<[Top EXCEPT !.nested = @ + 1]>>

\* The history of a behaviour:
\*   mounted   : the handles the host has mounted and not unmounted since
\*   live      : the identifiers a 'mount' has been emitted for, with no
\*               'unmount' since
\*   ok        : the host has called onUpdated, and the frontend a mutation
\*               command, only for handles that were mounted at the time
\*   announced : for the handles listed as a child in a 'mount' or 'update'
\*               message and not unmounted since, the identifier listed
\*   observed  : the selection the last checkSelection tick has observed
\*   rec       : what a behaviour records: "host" for mounted, live and ok,
\*               "children" for announced, "released" for the variable
\*               released
HistInit(rec) ==
  [mounted |-> {}, live |-> {}, ok |-> TRUE, announced |-> EmptyMap,
   observed |-> Null, rec |-> rec]

\* the history h as it is kept: only what rec names, and mounted and live
\* only as long as ok holds
HistKept(h) ==
  LET host == "host" \in h.rec /\ h.ok IN
  [h EXCEPT !.mounted = IF host THEN @ ELSE {},
            !.live = IF host THEN @ ELSE {},
            !.ok = IF "host" \in h.rec THEN @ ELSE TRUE,
            !.announced = IF "children" \in h.rec THEN @ ELSE EmptyMap]

\* announced, after a message send for the snapshot data has been emitted
Announce(ann, data, send) ==
  LET kids == Prop(data, "children")
      new == IF kids.t = "array"
               THEN {kids.a[k] : k \in {j \in 1..Len(kids.a) : TypeOf(kids.a[j]) = "object"}}
               ELSE {}
      listed(c) == Prop(send, "children").a[CHOOSE k \in 1..Len(kids.a) : kids.a[k] = c]
  IN [c \in DOMAIN ann \cup new |-> IF c \in new THEN listed(c) ELSE ann[c]]

\* the Backend after its constructor, in a behaviour that records rec
Constructed(rec) ==
  /\ ids = EmptyMap
  /\ comps = EmptyMap
  /\ nodes = EmptyMap
  /\ roots = {}
  /\ bridge = FALSE
  /\ trace = <<>>
  /\ stack = <<>>
  /\ call = NoCall
  /\ fault = FALSE
  /\ released = {}
  /\ drawn = 0
  /\ pa = [stage |-> "idle"]
  /\ reactInternals = FALSE
  /\ prevSelected = Null
  /\ window = [node |-> Undef]
  /\ hist = HistInit(rec)

Init == Constructed({"released"})

addBridge ==
  /\ Idle
  /\ ~bridge
  /\ bridge' = TRUE
  /\ trace' = <<>>
  /\ fault' = FALSE
  /\ call' = Invocation("addBridge", Undef, Undef, Undef, "", <<>>, Undef)
  /\ UNCHANGED <<ids, comps, nodes, roots, stack, released, drawn, pa, view, hist>>

addRoot(element, r) ==
  /\ HostMayCall(element)
  /\ LET g == GetId(Reg, element, r) IN
     /\ DrawsOk(<<r>>, IF g.drew THEN <<>> ELSE <<r>>)
     /\ drawn' = DrawnNext(<<r>>, IF g.drew THEN <<>> ELSE <<r>>)
     /\ ids' = g.reg.ids
     /\ comps' = g.reg.comps
     /\ roots' = roots \cup {g.id}
     /\ trace' = TraceBase \o Emit("root", g.id)
     /\ call' = Invocation("addRoot", element, g.id, Undef, "", <<>>, Undef)
  /\ stack' = StackBase
  /\ fault' = FaultBase
  /\ UNCHANGED <<nodes, bridge, released, pa, view, hist>>

\* onMounted and onUpdated differ in the name of the event only
Notify(ev, op, component, data, rs) ==
  /\ HostMayCall(component)
  /\ LET g == GetId(Reg, component, Head(rs))
         m == Message(g.reg, g.id, data, IF g.drew THEN Tail(rs) ELSE rs)
     IN
     /\ DrawsOk(rs, m.rs)
     /\ drawn' = DrawnNext(rs, m.rs)
     /\ nodes' = MapSet(nodes, g.id, data)
     /\ ids' = m.reg.ids
     /\ comps' = m.reg.comps
     /\ trace' = TraceBase \o Emit(ev, m.send)
     /\ call' = Invocation(op, component, g.id, data, "", <<>>, Undef)
     /\ hist' = HistKept(
          [hist EXCEPT
             !.ok = @ /\ (ev = "update" => component \in hist.mounted),
             !.mounted = IF ev = "mount" THEN @ \cup {component} ELSE @,
             !.live = IF ev = "mount" THEN @ \cup {g.id} ELSE @,
             !.announced = Announce(@, data, m.send)])
  /\ stack' = StackBase
  /\ fault' = FaultBase
  /\ UNCHANGED <<roots, bridge, released, pa, view>>

onMounted(component, data, rs) == Notify("mount", "onMounted", component, data, rs)

onUpdated(component, data, rs) == Notify("update", "onUpdated", component, data, rs)

\* onUnmounted up to and including emit('unmount', id): the listeners have
\* run, ids.delete(component) has not
onUnmounted(component, r) ==
  /\ HostMayCall(component)
  /\ LET g == GetId(Reg, component, r) IN
     /\ DrawsOk(<<r>>, IF g.drew THEN <<>> ELSE <<r>>)
     /\ drawn' = DrawnNext(<<r>>, IF g.drew THEN <<>> ELSE <<r>>)
     /\ ids' = g.reg.ids
     /\ comps' = g.reg.comps
     /\ nodes' = MapDelete(nodes, g.id)
     /\ roots' = SetDelete(roots, g.id)
     /\ trace' = TraceBase \o Emit("unmount", g.id)
     /\ call' = Invocation("onUnmounted", component, g.id, Undef, "", <<>>, Undef)
     /\ stack' = StackBase \o
                 <<Frame("onUnmounted", component, g.id, Undef,
                         Invocation("onUnmounted", component, g.id, Undef, "", <<>>, Undef))>>
     /\ hist' = HistKept(
          [hist EXCEPT
             !.mounted = @ \ {component},
             !.live = @ \ {g.id},
             !.announced = [c \in DOMAIN @ \ {component} |-> @[c]]])
  /\ fault' = FaultBase
  /\ UNCHANGED <<bridge, released, pa, view>>

\* the rest of onUnmounted: this.ids.delete(component)
onUnmountedReturn ==
  /\ stack # <<>>
  /\ Top.op = "onUnmounted"
  /\ ids' = MapDelete(ids, Top.component)
  /\ released' = IF "released" \in hist.rec THEN released \cup {Top.id}
                 ELSE released
  /\ stack' = Pop
  /\ UNCHANGED <<comps, nodes, roots, bridge, trace, call, fault, drawn, pa, view, hist>>

\* the test of the mutation commands that accepts every snapshot
SupportsForceUpdateAlways(data) == TRUE

\* data.updater && data.updater.forceUpdate
SupportsForceUpdate(data) ==
  Truthy(JsAnd(Prop(data, "updater"), Prop(Prop(data, "updater"), "forceUpdate")))

\* _setProps, _setState and _setContext up to and including the call of
\* data.updater.forceUpdate(); they differ in the field only.
\* nodes.get(id) of an id without a snapshot is undefined, and data[field]
\* then throws a TypeError.
SetCommand(op, field, id, path, value) ==
  /\ Idle
  /\ bridge
  /\ LET data == MapGet(nodes, id)
         cmd == Invocation(op, Undef, id, data, field, path, value)
     IN
     /\ call' = cmd
     /\ IF data = Undef
          THEN /\ fault' = TRUE
               /\ trace' = <<>>
               /\ UNCHANGED <<nodes, stack>>
          ELSE LET r == SetIn(Prop(data, field), path, value)
                   data1 == IF r.ret = Bool(TRUE)
                              THEN SetProp(data, field, r.obj) ELSE data
               IN
               IF r.threw
                 THEN /\ fault' = TRUE
                      /\ trace' = <<>>
                      /\ UNCHANGED <<nodes, stack>>
                 ELSE /\ fault' = FALSE
                      /\ nodes' = MapSet(nodes, id, data1)
                      /\ IF SupportsForceUpdate(data1)
                           THEN /\ trace' = <<[k |-> "forceUpdate", ev |-> "", arg |-> id]>>
                                /\ stack' = <<Frame("forceUpdate", Owner(data1), id, data1, cmd)>>
                           ELSE /\ trace' = <<>>
                                /\ stack' = <<>>
  /\ hist' = HistKept(
       [hist EXCEPT !.ok = @ /\ MapHas(comps, id) /\ comps[id] \in hist.mounted])
  /\ UNCHANGED <<ids, comps, roots, bridge, released, drawn, pa, view>>

setProps(id, path, value) == SetCommand("setProps", "props", id, path, value)

setState(id, path, value) == SetCommand("setState", "state", id, path, value)

setContext(id, path, value) == SetCommand("setContext", "context", id, path, value)

\* the paths of the makeGlobal command: 'instance' or an array of keys
MakeGlobalPaths == {Str("instance"), Arr(<<"props", "x">>)}

\* _makeGlobal({id, path}); call.value is what global.$tmp is set to.
\* data.updater of a data that is undefined is a TypeError; getIn(data, path)
\* of such a data is not.
makeGlobal(id, path) ==
  /\ Idle
  /\ bridge
  /\ LET data == MapGet(nodes, id)
         threw == path = Str("instance") /\ data = Undef
         value == IF threw THEN Undef
                  ELSE IF path = Str("instance")
                    THEN JsAnd(Prop(data, "updater"),
                               Prop(Prop(data, "updater"), "publicInstance"))
                  ELSE GetIn(data, path.a)
     IN /\ call' = Invocation("makeGlobal", Undef, id, data,
                              IF path.t = "string" THEN path.s ELSE "",
                              IF path.t = "array" THEN path.a ELSE <<>>, value)
        /\ fault' = threw
  /\ trace' = <<>>
  /\ UNCHANGED <<ids, comps, nodes, roots, bridge, stack, released, drawn, pa,
                 view, hist>>

\* the rest of a mutation command, once forceUpdate() has returned:
\* this.onUpdated(this.comps.get(id), data)
forceUpdateReturn(rs) ==
  /\ stack # <<>>
  /\ Top.op = "forceUpdate"
  /\ LET component == MapGet(comps, Top.id)
         g == GetId(Reg, component, Head(rs))
         m == Message(g.reg, g.id, Top.data, IF g.drew THEN Tail(rs) ELSE rs)
     IN
     /\ DrawsOk(rs, m.rs)
     /\ drawn' = DrawnNext(rs, m.rs)
     /\ nodes' = MapSet(nodes, g.id, Top.data)
     /\ ids' = m.reg.ids
     /\ comps' = m.reg.comps
     /\ trace' = trace \o Emit("update", m.send)
     /\ call' = [Top.cmd EXCEPT !.component = component]
     /\ hist' = HistKept([hist EXCEPT !.announced = Announce(@, Top.data, m.send)])
  /\ stack' = Pop
  /\ UNCHANGED <<roots, bridge, fault, released, pa, view>>

\* the handler of the turn has returned to the event loop; the next message
\* of the bridge or notification of the host starts a new turn
turnEnd ==
  /\ stack = <<>>
  /\ call # NoCall
  /\ call' = NoCall
  /\ trace' = <<>>
  /\ fault' = FALSE
  /\ UNCHANGED <<ids, comps, nodes, roots, bridge, stack, released, drawn, pa,
                 view, hist>>

Next ==
  \/ turnEnd
  \/ addBridge
  \/ \E element \in RootHandles : \E r \in FirstDraw(element) : addRoot(element, r)
  \/ \E component \in Handles, data \in UNION {Snapshots(h) : h \in Handles} :
       /\ data \in Snapshots(component)
       /\ \E r \in FirstDraw(component) : \E q \in SecondDraw(component, data, r) :
            onMounted(component, data, DrawSeq(component, r, q))
  \/ \E component \in Handles, data \in UNION {Snapshots(h) : h \in Handles} :
       /\ data \in Snapshots(component)
       /\ \E r \in FirstDraw(component) : \E q \in SecondDraw(component, data, r) :
            onUpdated(component, data, DrawSeq(component, r, q))
  \/ \E component \in Handles : \E r \in FirstDraw(component) :
       onUnmounted(component, r)
  \/ onUnmountedReturn
  \/ \E id \in Ids, path \in CmdPaths, value \in CmdValues : setProps(id, path, value)
  \/ \E id \in Ids, path \in ShortPaths, value \in CmdValues : setState(id, path, value)
  \/ \E id \in Ids, path \in ShortPaths, value \in CmdValues : setContext(id, path, value)
  \/ \E id \in Ids, path \in MakeGlobalPaths : makeGlobal(id, path)
  \/ /\ stack # <<>>
     /\ Top.op = "forceUpdate"
     /\ \E r \in FirstDraw(MapGet(comps, Top.id)) :
          \E q \in SecondDraw(MapGet(comps, Top.id), Top.data, r) :
            forceUpdateReturn(DrawSeq(MapGet(comps, Top.id), r, q))

Spec == Init /\ [][Next]_vars

\* the same Backend, in behaviours that record what the host has mounted
HostInit == Constructed({"host"})

HostSpec == HostInit /\ [][Next]_vars

\* the same Backend, in behaviours that record the children announced
ChildInit == Constructed({"children"})

ChildSpec == ChildInit /\ [][Next]_vars

(***************************************************************************)
(* Highlighting and selection.  The Tree Adapter (reactInternals) belongs  *)
(* to the host: at a call it knows a native node for the components of a   *)
(* set N and for no other.                                                 *)
(***************************************************************************)
\* the native node of a component
NativeOf(component) == Obj([native |-> Str(component.h)])

\* reactInternals.getNativeFromReactElement(component)
getNativeFromReactElement(component, N) ==
  IF component \in N THEN NativeOf(component) ELSE Null

\* reactInternals.getReactElementFromNative(node)
getReactElementFromNative(node, N) ==
  IF \E h \in N : node = NativeOf(h)
    THEN CHOOSE h \in N : node = NativeOf(h) ELSE Null

\* getNodeForID that asks the adapter whether one has been injected or not
GetNodeForIDUnguarded(id, injected, N) ==
  IF ~Truthy(MapGet(comps, id)) THEN Null
  ELSE getNativeFromReactElement(MapGet(comps, id), N)

\* getNodeForID(id), injected telling whether this.reactInternals is set
GetNodeForID(id, injected, N) ==
  IF ~Truthy(MapGet(comps, id)) THEN Null
  ELSE IF ~injected THEN Null
  ELSE getNativeFromReactElement(MapGet(comps, id), N)

\* getIDForNode(node): the identifier (undefined when the adapter finds no
\* component), the registry afterwards and whether randid() was called
GetIDForNode(node, injected, N, r) ==
  IF ~injected THEN [id |-> Null, reg |-> Reg, drew |-> FALSE]
  ELSE IF Truthy(getReactElementFromNative(node, N))
    THEN GetId(Reg, getReactElementFromNative(node, N), r)
  ELSE [id |-> Undef, reg |-> Reg, drew |-> FALSE]

\* the selections the host can show in window.__REACT_DEVTOOLS_BACKEND__.$0
Selections == {Undef} \cup {NativeOf(h) : h \in RootHandles}

\* the snapshots of the components that are highlighted and selected
ViewSnapshots(component) ==
  {d \in Snapshots(component) : Prop(d, "name") \in {Str("Foo"), Str("Bar")}}

\* the lists of identifiers a highlightMany message carries
IdLists == {<<>>} \cup {<<i>> : i \in Ids} \cup {<<i, j>> : i, j \in Ids}

setReactInternals ==
  /\ Idle
  /\ ~reactInternals
  /\ reactInternals' = TRUE
  /\ call' = Invocation("setReactInternals", Undef, Undef, Undef, "", <<>>, Undef)
  /\ trace' = <<>>
  /\ fault' = FALSE
  /\ UNCHANGED <<ids, comps, nodes, roots, bridge, stack, released, drawn, pa,
                 prevSelected, window, hist>>

\* what highlight(id) emits, and whether it throws: data.name of a data that
\* is undefined is a TypeError
Highlight(id, N) ==
  LET data == MapGet(nodes, id)
      node == GetNodeForID(id, reactInternals, N)
  IN IF ~Truthy(node) THEN [out |-> <<>>, threw |-> FALSE]
     ELSE IF data \in {Undef, Null} THEN [out |-> <<>>, threw |-> TRUE]
     ELSE [out |-> Emit("highlight",
                        Obj([node |-> node, name |-> Prop(data, "name"),
                             props |-> Prop(data, "props")])),
           threw |-> FALSE]

highlight(id, N) ==
  /\ Idle
  /\ trace' = Highlight(id, N).out
  /\ fault' = Highlight(id, N).threw
  /\ call' = Invocation("highlight", MapGet(comps, id), id, MapGet(nodes, id),
                        "", <<>>, GetNodeForID(id, reactInternals, N))
  /\ UNCHANGED <<ids, comps, nodes, roots, bridge, stack, released, drawn, pa,
                 view, hist>>

\* the list of highlightMany with nothing left out
ResolvedAll(found) == found

\* the nodes of highlightMany that pass `if (node)`, in order
RECURSIVE Resolved(_)
Resolved(found) ==
  IF found = <<>> THEN <<>>
  ELSE (IF Truthy(Head(found)) THEN <<Head(found)>> ELSE <<>>)
       \o Resolved(Tail(found))

\* highlightMany(ids); call.value holds what getNodeForID returned for each
highlightMany(list, N) ==
  /\ Idle
  /\ LET found == [k \in 1..Len(list) |-> GetNodeForID(list[k], reactInternals, N)]
         nodes1 == Resolved(found)
     IN /\ trace' = IF Len(nodes1) # 0 THEN Emit("highlightMany", Arr(nodes1))
                    ELSE <<>>
        /\ call' = Invocation("highlightMany", Undef, Arr(list), Undef, "", <<>>,
                              Arr(found))
  /\ fault' = FALSE
  /\ UNCHANGED <<ids, comps, nodes, roots, bridge, stack, released, drawn, pa,
                 view, hist>>

\* scrollToNode(id): the node is scrolled into view, then highlight(id)
scrollToNode(id, N) ==
  /\ Idle
  /\ LET node == GetNodeForID(id, reactInternals, N) IN
     /\ trace' = IF ~Truthy(node) THEN <<>>
                 ELSE <<[k |-> "scroll", ev |-> "", arg |-> node]>>
                      \o Highlight(id, N).out
     /\ fault' = (Truthy(node) /\ Highlight(id, N).threw)
     /\ call' = Invocation("scrollToNode", MapGet(comps, id), id,
                           MapGet(nodes, id), "", <<>>, node)
  /\ UNCHANGED <<ids, comps, nodes, roots, bridge, stack, released, drawn, pa,
                 view, hist>>

\* what selectFromDOMNode(node) emits
Select(node, N, r) ==
  LET g == GetIDForNode(node, reactInternals, N, r) IN
  IF ~Truthy(g.id) THEN <<>>
  ELSE Emit("setSelection", Obj([id |-> g.id, quiet |-> Undef]))

selectFromDOMNode(node, N, r) ==
  /\ Idle
  /\ LET g == GetIDForNode(node, reactInternals, N, r) IN
     /\ DrawsOk(<<r>>, IF g.drew THEN <<>> ELSE <<r>>)
     /\ drawn' = DrawnNext(<<r>>, IF g.drew THEN <<>> ELSE <<r>>)
     /\ ids' = g.reg.ids
     /\ comps' = g.reg.comps
     /\ trace' = Select(node, N, r)
     /\ call' = Invocation("selectFromDOMNode",
                           getReactElementFromNative(node, N), g.id, Undef,
                           "", <<>>, node)
  /\ fault' = FALSE
  /\ UNCHANGED <<nodes, roots, bridge, stack, released, pa, view, hist>>

\* the 'putSelectedNode' message: $node = this.getNodeForID(id)
putSelectedNode(id, N) ==
  /\ Idle
  /\ bridge
  /\ window' = [window EXCEPT !.node = GetNodeForID(id, reactInternals, N)]
  /\ call' = Invocation("putSelectedNode", MapGet(comps, id), id, Undef, "",
                        <<>>, GetNodeForID(id, reactInternals, N))
  /\ trace' = <<>>
  /\ fault' = FALSE
  /\ UNCHANGED <<ids, comps, nodes, roots, bridge, stack, released, drawn, pa,
                 reactInternals, prevSelected, hist>>

\* the test of the tick that compares with $node only
SelectionChangedSentOnly(newSelected, prev) == TRUE

\* newSelected !== this._prevSelected
SelectionChanged(newSelected, prev) == newSelected # prev

\* the 'checkSelection' message, newSelected being what $0 holds.
\* call.value is the selection observed, call.data the _prevSelected and
\* call.id the $node it was compared with; a call of selectFromDOMNode is an
\* entry of the trace.
checkSelection(newSelected, N, r) ==
  /\ Idle
  /\ bridge
  /\ LET sentSelected == window.node
      g == GetIDForNode(newSelected, reactInternals, N, r)
     IN
     /\ call' = Invocation("checkSelection", Undef, sentSelected, prevSelected,
                           "", <<>>, newSelected)
     /\ hist' = [hist EXCEPT !.observed = newSelected]
     /\ IF SelectionChanged(newSelected, prevSelected)
          THEN /\ prevSelected' = newSelected
               /\ IF newSelected # sentSelected
                    THEN /\ DrawsOk(<<r>>, IF g.drew THEN <<>> ELSE <<r>>)
                         /\ drawn' = DrawnNext(<<r>>, IF g.drew THEN <<>> ELSE <<r>>)
                         /\ ids' = g.reg.ids
                         /\ comps' = g.reg.comps
                         /\ trace' = <<[k |-> "selectFromDOMNode", ev |-> "",
                                        arg |-> newSelected]>>
                                     \o Select(newSelected, N, r)
                    ELSE /\ r = IdName(1)
                         /\ trace' = <<>>
                         /\ UNCHANGED <<ids, comps, drawn>>
          ELSE /\ r = IdName(1)
               /\ trace' = <<>>
               /\ UNCHANGED <<ids, comps, drawn, prevSelected>>
  /\ fault' = FALSE
  /\ UNCHANGED <<nodes, roots, bridge, stack, released, pa, reactInternals, window>>

\* the draws of getIDForNode(node)
NodeDraw(node, N) ==
  IF reactInternals /\ Truthy(getReactElementFromNative(node, N))
    THEN FirstDraw(getReactElementFromNative(node, N)) ELSE {IdName(1)}

ViewNext ==
  \/ turnEnd
  \/ addBridge
  \/ setReactInternals
  \/ \E element \in RootHandles : \E r \in FirstDraw(element) : addRoot(element, r)
  \/ \E component \in Handles, data \in UNION {Snapshots(h) : h \in Handles} :
       /\ data \in ViewSnapshots(component)
       /\ \E r \in FirstDraw(component) : \E q \in SecondDraw(component, data, r) :
            onMounted(component, data, DrawSeq(component, r, q))
  \/ \E component \in Handles : \E r \in FirstDraw(component) :
       onUnmounted(component, r)
  \/ onUnmountedReturn
  \/ \E id \in Ids, N \in SUBSET Handles : highlight(id, N)
  \/ \E list \in IdLists, N \in SUBSET Handles : highlightMany(list, N)
  \/ \E id \in Ids, N \in SUBSET Handles : scrollToNode(id, N)
  \/ \E node \in Selections, N \in SUBSET Handles :
       \E r \in NodeDraw(node, N) : selectFromDOMNode(node, N, r)
  \/ \E id \in Ids, N \in SUBSET Handles : putSelectedNode(id, N)
  \/ \E node \in Selections, N \in SUBSET Handles :
       \E r \in NodeDraw(node, N) : checkSelection(node, N, r)

\* the Backend of ViewSpec records no history but hist.observed
ViewInit == Constructed({})

ViewSpec == ViewInit /\ [][ViewNext]_vars

(***************************************************************************)
(* The path accessors on their own: setIn on an object graph, a path and a *)
(* value drawn from bounded sets, followed by getIn on the same path.      *)
(***************************************************************************)
Keys == {"x", "y"}

Leaves == {Num(1), Null}

\* the object with x and y as its properties, Undef standing for no property
MkObj(x, y) ==
  Obj([k \in {n \in Keys : (IF n = "x" THEN x ELSE y) # Undef} |->
         IF k = "x" THEN x ELSE y])

\* the object graphs of nesting depth d: property x holds a leaf or a nested
\* object, property y a leaf
RECURSIVE Trees(_)
Trees(d) ==
  LET xs == {Undef} \cup Leaves \cup (IF d = 0 THEN {} ELSE Trees(d - 1))
      ys == {Undef} \cup Leaves
  IN {MkObj(x, y) : x \in xs, y \in ys}

PathRoots == Trees(MaxPathLen - 1) \cup {Undef, Null}

Paths == UNION {[1..n -> Keys] : n \in 1..MaxPathLen}

PathValues == {Num(5), EmptyObj}

PathInit ==
  /\ ids = EmptyMap
  /\ comps = EmptyMap
  /\ nodes = EmptyMap
  /\ roots = {}
  /\ bridge = FALSE
  /\ trace = <<>>
  /\ stack = <<>>
  /\ call = NoCall
  /\ fault = FALSE
  /\ released = {}
  /\ drawn = 0
  /\ reactInternals = FALSE
  /\ prevSelected = Null
  /\ window = [node |-> Undef]
  /\ hist = HistInit({})
  /\ \E o \in PathRoots, p \in Paths, v \in PathValues :
       pa = [stage |-> "input", root |-> o, path |-> p, value |-> v,
             root0 |-> o, path0 |-> p, ret |-> Undef, threw |-> FALSE,
             got |-> Undef]

callSetIn ==
  /\ pa.stage = "input"
  /\ LET r == SetIn(pa.root, pa.path, pa.value) IN
     pa' = [pa EXCEPT !.stage = "set", !.root = r.obj, !.path = r.path,
                      !.ret = r.ret, !.threw = r.threw]
  /\ UNCHANGED <<ids, comps, nodes, roots, bridge, trace, stack, call, fault,
                 released, drawn, view, hist>>

callGetIn ==
  /\ pa.stage = "set"
  /\ ~pa.threw
  /\ pa' = [pa EXCEPT !.stage = "got", !.got = GetIn(pa.root, pa.path)]
  /\ UNCHANGED <<ids, comps, nodes, roots, bridge, trace, stack, call, fault,
                 released, drawn, view, hist>>

PathNext == callSetIn \/ callGetIn

PathSpec == PathInit /\ [][PathNext]_vars

(***************************************************************************)
(* What the properties below speak of.                                     *)
(***************************************************************************)
Absent(v) == v.t \in {"undefined", "null"}

\* the value the keys lead to from v, absent once a step is absent
RECURSIVE Lookup(_, _)
Lookup(v, keys) ==
  IF keys = <<>> THEN v
  ELSE IF Absent(v) THEN Undef
  ELSE Lookup(Prop(v, Head(keys)), Tail(keys))

\* the root or a key before the last resolves to an absent value
MissingContainer(root, path) ==
  \E n \in 0..(Len(path) - 1) : Absent(Lookup(root, SubSeq(path, 1, n)))

\* the root and every key before the last resolve to an object
ContainersExist(root, path) ==
  \A n \in 0..(Len(path) - 1) : Lookup(root, SubSeq(path, 1, n)).t = "object"

(***************************************************************************)
(* Properties of the registries and of the messages, under Spec.           *)
(***************************************************************************)
SetOps == {"setProps", "setState", "setContext"}

\* the events the current turn has emitted, in order
Emits == SelectSeq(trace, LAMBDA e : e.k = "emit")

\* onUnmounted is inside emit('unmount', id)
InUnmountEmit == stack # <<>> /\ Top.op = "onUnmounted"

\* the snapshot has an updater object with a forceUpdate function
UpdaterSupports(data) ==
  /\ Prop(data, "updater").t = "object"
  /\ Prop(Prop(data, "updater"), "forceUpdate").t = "function"

\* C1: once the handlers have returned, comps maps i to h exactly when ids
\* maps h to i.
C1_MutualInverses ==
  stack = <<>> =>
    \A i \in Ids, h \in Handles :
      (MapHas(comps, i) /\ comps[i] = h) <=> (MapHas(ids, h) /\ ids[h] = i)

\* C2: two different handles that are tracked at the same time have
\* different identifiers.
C2_DistinctIdentifiers ==
  \A h1 \in DOMAIN ids, h2 \in DOMAIN ids : h1 # h2 => ids[h1] # ids[h2]

\* C3: a handle that getId registers never gets an identifier that
\* onUnmounted has released before.
C3_NoReuse ==
  [][\A e \in DOMAIN ids' : ~MapHas(ids, e) => ids'[e] \notin released]_vars

\* C4: for a handle that is registered, getId returns the registered
\* identifier and leaves the registry as it is; every step other than the
\* return of onUnmounted for that handle keeps its identifier; and the
\* notifications about it carry that identifier.
C4_GetIdStable ==
  [][\A e \in DOMAIN ids :
       /\ \A r \in Ids :
            GetId(Reg, e, r) = [id |-> ids[e], reg |-> Reg, drew |-> FALSE]
       /\ ~(InUnmountEmit /\ Top.component = e)
            => (MapHas(ids', e) /\ ids'[e] = ids[e])
       /\ (call'.component = e
            /\ call'.op \in {"addRoot", "onMounted", "onUpdated", "onUnmounted"})
            => call'.id = ids[e]]_vars

\* a notification about h1 after addRoot(h1) put its identifier among the
\* roots, with another handle registered and an identifier released meanwhile
C4_Witness ==
  /\ call.op = "onUpdated"
  /\ call.component = Ref("h1")
  /\ call.id \in roots
  /\ MapHas(ids, Ref("h2"))
  /\ released # {}

\* C5: while the 'unmount' event of onUnmounted(h) is delivered, the
\* identifier is in neither nodes nor roots and ids still maps h to it; once
\* onUnmounted has returned, ids has no entry for h and the identifier is
\* still in neither nodes nor roots.
C5_UnmountOrder ==
  call.op = "onUnmounted" =>
    /\ ~MapHas(nodes, call.id)
    /\ call.id \notin roots
    /\ InUnmountEmit =>
         /\ Top.component = call.component
         /\ MapHas(ids, call.component)
         /\ ids[call.component] = call.id
         /\ Emits # <<>>
         /\ Emits[Len(Emits)].ev = "unmount"
         /\ Emits[Len(Emits)].arg = call.id
    /\ ~InUnmountEmit => ~MapHas(ids, call.component)

\* onUnmounted of the component whose snapshot a mutation command has just
\* read from nodes, inside its emit
C5_Witness ==
  /\ Len(stack) = 2
  /\ InUnmountEmit
  /\ stack[1].op = "forceUpdate"
  /\ stack[1].id = Top.id
  /\ ~MapHas(nodes, Top.id)
  /\ MapHas(ids, Top.component)

\* C6: a 'mount' or 'update' message has no type and no updater, its id is
\* the identifier of the handle, its canUpdate is the boolean that tells
\* whether the updater supports forceUpdate, and its children, when the
\* snapshot has an array of them, are their identifiers.
C6_MessageShape ==
  (/\ Emits # <<>>
   /\ Emits[Len(Emits)].ev \in {"mount", "update"}
   /\ call.op \in SetOps \cup {"onMounted", "onUpdated"})
    => LET send == Emits[Len(Emits)].arg
           kids == Prop(call.data, "children")
       IN /\ "type" \notin DOMAIN send.f
          /\ "updater" \notin DOMAIN send.f
          /\ Prop(send, "id") = MapGet(ids, call.component)
          /\ Prop(send, "canUpdate") = Bool(UpdaterSupports(call.data))
          /\ kids.t = "array" =>
               /\ Prop(send, "children").t = "array"
               /\ Len(Prop(send, "children").a) = Len(kids.a)
               /\ \A i \in 1..Len(kids.a) :
                    Prop(send, "children").a[i] =
                      IF TypeOf(kids.a[i]) = "object"
                        THEN MapGet(ids, kids.a[i]) ELSE kids.a[i]

\* C7: a mutation command on a snapshot whose updater supports forceUpdate,
\* with every intermediate container of the path present, calls forceUpdate
\* once and then emits an 'update' for the same id whose field holds the
\* value at the path.
C7_MutationApplied ==
  (/\ stack = <<>>
   /\ call.op \in SetOps
   /\ call.data # Undef
   /\ UpdaterSupports(call.data)
   /\ ContainersExist(Prop(call.data, call.field), call.path))
    => /\ ~fault
       /\ Len(SelectSeq(trace, LAMBDA e : e.k = "forceUpdate")) = 1
       /\ trace[1].k = "forceUpdate"
       /\ Emits # <<>>
       /\ Emits[Len(Emits)].ev = "update"
       /\ Prop(Emits[Len(Emits)].arg, "id") = call.id
       /\ GetIn(Prop(Emits[Len(Emits)].arg, call.field), call.path) = call.value

\* C8: a mutation command on a snapshot without an updater that supports
\* forceUpdate emits nothing, sends nothing and calls no forceUpdate.
C8_RejectedSilent ==
  (call.op \in SetOps /\ call.data # Undef /\ ~UpdaterSupports(call.data))
    => (trace = <<>> /\ stack = <<>>)

\* a rejected command on a snapshot with an updater that has no forceUpdate,
\* that did not throw
C8_Witness ==
  /\ call.op \in SetOps
  /\ call.data # Undef
  /\ Prop(call.data, "updater").t = "object"
  /\ ~UpdaterSupports(call.data)
  /\ ~fault
  /\ bridge

(***************************************************************************)
(* Properties of the path accessors, under PathSpec.                       *)
(***************************************************************************)
\* C9: setIn on a path with a missing intermediate container (or an absent
\* root) returns false, leaves the object unmodified and does not throw.
C9_MissingContainerFails ==
  (pa.stage \in {"set", "got"} /\ MissingContainer(pa.root0, pa.path0))
    => (pa.ret = Bool(FALSE) /\ ~pa.threw /\ pa.root = pa.root0)

\* C10: when every intermediate container of the path exists, setIn returns
\* true, getIn on the same path then returns the value, and the caller's path
\* is what it was.
C10_SetThenGet ==
  (pa.stage \in {"set", "got"} /\ ContainersExist(pa.root0, pa.path0))
    => /\ pa.ret = Bool(TRUE)
       /\ ~pa.threw
       /\ pa.path = pa.path0
       /\ pa.stage = "got" => pa.got = pa.value

C10_Witness ==
  /\ pa.stage = "got"
  /\ ContainersExist(pa.root0, pa.path0)
  /\ Len(pa.path0) >= 2
  /\ pa.got = pa.value
  /\ pa.root # pa.root0

(***************************************************************************)
(* Properties of highlighting and selection, under ViewSpec.               *)
(***************************************************************************)
\* C11: highlight(id) emits 'highlight' only when the snapshot and the
\* native node are both found; when either is missing it emits nothing and
\* does not throw.
C11_HighlightNeedsBoth ==
  call.op = "highlight" =>
    /\ ~fault
    /\ IF call.data # Undef /\ Truthy(call.value)
         THEN /\ Len(Emits) = 1
              /\ Emits[1].ev = "highlight"
              /\ Prop(Emits[1].arg, "node") = call.value
         ELSE trace = <<>>

\* C12: highlightMany(ids) emits at most one 'highlightMany' event; the event
\* carries the native nodes of the ids that resolve, in the order of ids,
\* and nothing else; with no id resolved nothing is emitted.
C12_HighlightManyBatch ==
  call.op = "highlightMany" =>
    LET found == call.value.a
        hits == {k \in 1..Len(found) : Truthy(found[k])}
        nth(j) == CHOOSE k \in hits : Cardinality({i \in hits : i <= k}) = j
    IN /\ ~fault
       /\ Len(trace) = Len(Emits)
       /\ IF hits = {} THEN trace = <<>>
          ELSE /\ Len(Emits) = 1
               /\ Emits[1].ev = "highlightMany"
               /\ Emits[1].arg.t = "array"
               /\ Len(Emits[1].arg.a) = Cardinality(hits)
               /\ \A j \in 1..Cardinality(hits) : Emits[1].arg.a[j] = found[nth(j)]

\* highlightMany of two registered identifiers of which only the second
\* resolves to a native node
C12_Witness ==
  /\ call.op = "highlightMany"
  /\ Len(call.value.a) = 2
  /\ ~Truthy(call.value.a[1])
  /\ Truthy(call.value.a[2])
  /\ Len(Emits) = 1
  /\ Emits[1].arg = Arr(<<call.value.a[2]>>)
  /\ MapHas(comps, call.id.a[1])

\* whether the tick called selectFromDOMNode
Triggered == \E k \in 1..Len(trace) : trace[k].k = "selectFromDOMNode"

\* C13: a checkSelection tick calls selectFromDOMNode exactly when the
\* selection it observes differs from the one the previous tick observed
\* and from $node, the node last sent; _prevSelected becomes the observed
\* selection on every tick where the observation changed.
C13_SelectionDedup ==
  [][(call = NoCall /\ call'.op = "checkSelection") =>
       /\ Triggered' <=> (call'.value # hist.observed /\ call'.value # window.node)
       /\ Triggered' =>
            /\ Len(SelectSeq(trace', LAMBDA e : e.k = "selectFromDOMNode")) = 1
            /\ trace'[1].arg = call'.value
       /\ prevSelected' = IF call'.value # hist.observed
                            THEN call'.value ELSE prevSelected
       /\ prevSelected' = hist'.observed]_vars

\* a tick that observes a native node after a tick that observed none, and
\* selects the component of that node
C13_Witness ==
  /\ call.op = "checkSelection"
  /\ call.data = Undef
  /\ call.value = NativeOf(Ref("h1"))
  /\ Triggered
  /\ Len(Emits) = 1
  /\ Emits[1].ev = "setSelection"
  /\ Prop(Emits[1].arg, "id") = MapGet(ids, Ref("h1"))

(***************************************************************************)
(* More properties of the registries, under Spec.                          *)
(***************************************************************************)
\* C14: every identifier that is a key of nodes or a member of roots, and is
\* not a primitive that getId passed through, is the identifier that ids
\* holds for some handle.
C14_StoredIdsTracked ==
  \A i \in (DOMAIN nodes \cup roots) \cap Ids :
    \E h \in DOMAIN ids : ids[h] = i

\* a root with a snapshot and a second tracked component, after an
\* identifier has been released
C14_Witness ==
  /\ \E i \in roots : MapHas(nodes, i)
  /\ \E i \in DOMAIN nodes : i \notin roots
  /\ released # {}
  /\ stack = <<>>

\* C15: with a bridge attached, onUnmounted(h) makes the bridge receive
\* send('unmount', i) and then forget(i), once each, i being the identifier
\* of h, while ids still maps h to i; ids loses h only when onUnmounted
\* returns, and nothing more is sent then.
C15_BridgeUnmount ==
  [][/\ (bridge /\ Len(stack') > Len(stack) /\ Top'.op = "onUnmounted") =>
          /\ MapHas(ids, Top'.component) => Top'.id = ids[Top'.component]
          /\ MapHas(ids', Top'.component)
          /\ ids'[Top'.component] = Top'.id
          /\ trace' = trace \o <<[k |-> "emit", ev |-> "unmount", arg |-> Top'.id],
                                 [k |-> "send", ev |-> "unmount", arg |-> Top'.id],
                                 [k |-> "forget", ev |-> "unmount", arg |-> Top'.id]>>
     /\ (bridge /\ Len(stack') < Len(stack) /\ Top.op = "onUnmounted") =>
          /\ trace' = trace
          /\ ~MapHas(ids', Top.component)]_vars

\* onUnmounted has returned, with a bridge attached and another component
\* still tracked
C15_Witness ==
  /\ bridge
  /\ DOMAIN ids # {}
  /\ call.op = "onUnmounted"
  /\ stack = <<>>
  /\ Len(trace) = 3
  /\ trace[2] = [k |-> "send", ev |-> "unmount", arg |-> call.id]
  /\ trace[3] = [k |-> "forget", ev |-> "unmount", arg |-> call.id]
  /\ ~MapHas(ids, call.component)
  /\ MapGet(comps, call.id) = call.component

\* C16: after a mutation command that is rejected, because the updater of
\* the snapshot is absent or has no forceUpdate, nodes holds for the id the
\* snapshot it held before.
C16_RejectedKeepsSnapshot ==
  (call.op \in SetOps /\ call.data # Undef /\ ~UpdaterSupports(call.data))
    => MapGet(nodes, call.id) = call.data

\* C17: a mutation command or makeGlobal on an id that has no snapshot in
\* nodes does not throw, emits nothing and leaves ids, comps, nodes and roots
\* as they are.
C17_MissingSnapshotHarmless ==
  [][(call = NoCall /\ call'.op \in SetOps \cup {"makeGlobal"}
       /\ call'.data = Undef)
      => /\ ~fault'
         /\ trace' = <<>>
         /\ UNCHANGED <<ids, comps, nodes, roots>>]_vars

\* C18: as long as no adapter has been injected, highlight, highlightMany,
\* scrollToNode, selectFromDOMNode and the checkSelection tick emit nothing,
\* send nothing, do not throw and leave ids, comps, nodes and roots as they
\* are.  (Under ViewSpec.)
C18_NoAdapterNoEffect ==
  [][(/\ call = NoCall
      /\ call'.op \in {"highlight", "highlightMany", "scrollToNode",
                       "selectFromDOMNode", "checkSelection"}
      /\ ~reactInternals)
      => /\ \A k \in 1..Len(trace') : trace'[k].k = "selectFromDOMNode"
         /\ ~fault'
         /\ UNCHANGED <<ids, comps, nodes, roots>>]_vars

\* highlight of a mounted component before an adapter is injected
C18_Witness ==
  /\ ~reactInternals
  /\ call.op = "highlight"
  /\ call.data # Undef
  /\ call.component \in Handles
  /\ MapGet(ids, call.component) = call.id
  /\ trace = <<>>
  /\ ~fault

(***************************************************************************)
(* Properties of the order of messages, under HostSpec and ChildSpec.      *)
(***************************************************************************)
\* C19: as long as the host calls onUpdated, and the frontend the mutation
\* commands, only for handles that are mounted, every 'update' message
\* carries an identifier for which a 'mount' has been emitted and no
\* 'unmount' since, the re-emit of a mutation command included.  (Under
\* HostSpec.)
C19_UpdateAfterMount ==
  [][(/\ Len(Emits') > Len(Emits)
      /\ Emits'[Len(Emits')].ev = "update"
      /\ hist'.ok)
      => Prop(Emits'[Len(Emits')].arg, "id") \in hist.live]_vars

\* C20: the identifier listed for an object child in the children of a
\* 'mount' or 'update' message is registered for that child from then on,
\* and a later onMounted or onUpdated of the child, with no onUnmounted of it
\* in between, emits a message with that identifier.  (Under ChildSpec.)
C20_ChildIdRegistered ==
  [][/\ \A c \in DOMAIN hist'.announced :
          MapHas(ids', c) /\ ids'[c] = hist'.announced[c]
     /\ \A c \in DOMAIN hist.announced :
          (/\ Len(Emits') > Len(Emits)
           /\ call'.op \in {"onMounted", "onUpdated"}
           /\ call'.component = c)
            => /\ Emits'[Len(Emits')].ev \in {"mount", "update"}
               /\ Prop(Emits'[Len(Emits')].arg, "id") = hist.announced[c]]_vars

\* the child is mounted after its parent, whose snapshot is still stored
C20_Witness ==
  /\ call.op = "onMounted"
  /\ call.component = Ref("h2")
  /\ MapHas(hist.announced, Ref("h2"))
  /\ call.id = hist.announced[Ref("h2")]
  /\ MapHas(ids, Ref("h1"))
  /\ MapHas(nodes, ids[Ref("h1")])
  /\ Prop(nodes[ids[Ref("h1")]], "children").t = "array"
  /\ ids[Ref("h1")] # call.id

====
